---- MODULE Spec2Model ----
(***************************************************************************)
(* Model of the nazr web front end's client-side core:                     *)
(*   - the album store kept in localStorage (lib/albums),                  *)
(*   - the dependent page loader of the albums page,                       *)
(*   - the bulk "unassign from person" handler of the asset card.          *)
(***************************************************************************)
EXTENDS Integers, Sequences, FiniteSets, TLC

(***************************************************************************)
(* Bounds of the model.                                                    *)
(***************************************************************************)
MaxTime == 1        \* Date.now() takes the values 0..MaxTime
MaxAssetId == 3     \* asset identifiers are 1..MaxAssetId
MaxAlbums == 2      \* createAlbum is not explored beyond this many albums
MaxOps == 2         \* album-store calls explored per behaviour

Times == 0..MaxTime
Assets == 1..MaxAssetId

(***************************************************************************)
(* Values.                                                                 *)
(***************************************************************************)
\* Album names are character sequences, so that trimming is computed.
Names == { <<" ">>, <<"a", " ">> }
Descriptions == { "d" }
Undefined == "undefined"          \* the JavaScript value undefined
Omitted == "omitted"              \* a property JSON.stringify left out
Suffixes == { "r1" }              \* Math.random().toString(36).substr(2, 9)

RECURSIVE TrimStart(_)
TrimStart(s) ==
  IF s = <<>> THEN s
  ELSE IF Head(s) = " " THEN TrimStart(Tail(s)) ELSE s

RECURSIVE TrimEnd(_)
TrimEnd(s) ==
  IF s = <<>> THEN s
  ELSE IF s[Len(s)] = " " THEN TrimEnd(SubSeq(s, 1, Len(s) - 1)) ELSE s

\* String.prototype.trim
Trim(s) == TrimEnd(TrimStart(s))

Range(s) == { s[i] : i \in 1..Len(s) }

RECURSIVE FilterSeq(_, _)
\* Array.prototype.filter, keeping the elements that are not in the set drop
FilterSeq(s, drop) ==
  IF s = <<>> THEN <<>>
  ELSE IF Head(s) \in drop THEN FilterSeq(Tail(s), drop)
       ELSE <<Head(s)>> \o FilterSeq(Tail(s), drop)

RECURSIVE SetAddAll(_, _)
\* a Set holding existing, then add(id) for each id of ids, then Array.from:
\* insertion order, every value once
SetAddAll(existing, ids) ==
  IF ids = <<>> THEN existing
  ELSE SetAddAll(IF Head(ids) \in Range(existing) THEN existing
                 ELSE Append(existing, Head(ids)), Tail(ids))

\* new Set(array) then Array.from: the first occurrence of every value
Dedup(s) == SetAddAll(<<>>, s)

(***************************************************************************)
(* The album store: lib/albums.                                            *)
(***************************************************************************)
VARIABLES
  storage,    \* localStorage: the records under 'nazr.albums' and 'nazr.collections'
  now,        \* the last value Date.now() returned
  lastOp,     \* the last album-store call: its arguments, what it read and returned
  nOps,       \* number of album-store calls made
  tabs        \* per document of the origin: where its call of the store stands

albumVars == <<storage, now, lastOp, nOps, tabs>>

\* the dependent page loader
VARIABLES
  catalog,             \* the server's gallery listing: a sequence of pages of asset ids
  selectedAlbum,       \* the component's state: the selected album, or null
  pagesLoaded,         \* number of pages in the gallery cache entry (assetsData.pages)
  isFetchingNextPage,  \* the query's flag
  inFlight,            \* page requests outstanding for the gallery cache entry
  fetches,             \* fetchNextPage calls the loader made
  failures,            \* page requests that failed
  rendered,            \* the query result the last render read
  effectDue,           \* the last render's effect has not run yet
  lastEffect           \* what the last run of the effect did

loaderVars ==
  <<catalog, selectedAlbum, pagesLoaded, isFetchingNextPage, inFlight, fetches,
    failures, rendered, effectDue, lastEffect>>

\* the bulk handler
VARIABLES
  faces,                 \* the server: for every asset, the person of each of its faces
  phase,                 \* "idle", "loop" (inside the for loop) or "done"
  assetsToProcess,       \* the assets the loop has not processed yet
  totalFacesUnassigned,
  successCount,
  errorCount,
  transport,             \* for every asset, what the transport did to its calls
  notification,          \* what showNotification was given
  invalidations          \* number of times the caches were invalidated

\* the asset card and the query cache its handlers reconcile
VARIABLES
  asset,                 \* the card's own asset (the asset prop)
  handled,               \* the handler that ran, and its arguments
  pending,               \* the asset whose calls the loop is awaiting
  queries,               \* the query cache: the entry under every query key
  route                  \* the person of the gallery view the router shows

cardVars == <<asset, handled, pending, queries, route>>

bulkVars ==
  <<faces, phase, assetsToProcess, totalFacesUnassigned, successCount, errorCount,
    transport, notification, invalidations, cardVars>>

vars == <<albumVars, loaderVars, bulkVars>>

Album(id, name, description, assetIds, createdAt, updatedAt) ==
  [id |-> id, name |-> name, description |-> description, assetIds |-> assetIds,
   createdAt |-> createdAt, updatedAt |-> updatedAt]

\* A stored string: absent (getItem gives null), text that JSON.parse rejects,
\* or the JSON text of a list of albums.
AbsentItem == [kind |-> "absent", val |-> <<>>]
GarbageItem == [kind |-> "garbage", val |-> <<>>]

\* JSON.stringify leaves out properties whose value is undefined
ToJson(a) ==
  [a EXCEPT !.description = IF a.description = Undefined THEN Omitted ELSE a.description]

\* reading a property the JSON text does not hold gives undefined
FromJson(j) ==
  [j EXCEPT !.description = IF j.description = Omitted THEN Undefined ELSE j.description]

JSONstringify(albums) ==
  [kind |-> "json", val |-> [i \in 1..Len(albums) |-> ToJson(albums[i])]]

\* JSON.parse of a stored text that is JSON (garbage throws: see getAlbums)
JSONparse(item) == [i \in 1..Len(item.val) |-> FromJson(item.val[i])]

\* `if (stored)`: null is falsy, every text the model stores is not empty
Truthy(item) == item.kind # "absent"

\* What the backing store does to one call of the store's functions:
\*   ok      every localStorage call succeeds
\*   quota   setItem throws (quota exceeded), reads and removals succeed
\*   denied  every localStorage call throws (storage access denied)
StoreModes == { "ok", "quota", "denied" }

\* localStorage.getItem / setItem throw under these modes
getItemThrows(mode) == mode = "denied"
setItemThrows(mode) == mode # "ok"

\* A faulty variant of saveAlbums: an album keeps the asset ids its stored
\* version holds
saveAlbumsMerging(st, albums, mode) ==
  IF setItemThrows(mode) THEN st
  ELSE [st EXCEPT !.albums =
          JSONstringify(
            [i \in 1..Len(albums) |->
               LET same == { j \in 1..Len(st.albums.val) :
                               st.albums.val[j].id = albums[i].id }
               IN IF same = {} THEN albums[i]
                  ELSE [albums[i] EXCEPT !.assetIds =
                          SetAddAll(@, st.albums.val[CHOOSE j \in same : TRUE].assetIds)]])]

\* saveAlbums: setItem of the JSON text; a throw is caught and logged
saveAlbums(st, albums, mode) ==
  IF setItemThrows(mode) THEN st ELSE [st EXCEPT !.albums = JSONstringify(albums)]

\* What getAlbums gives: the list it returns, the storage it leaves, and the
\* exceptions it caught (readFailed: getItem or JSON.parse threw; writeFailed:
\* the migration's setItem threw)
Read(ret, st, readFailed, writeFailed) ==
  [ret |-> ret, st |-> st, readFailed |-> readFailed, writeFailed |-> writeFailed]

\* A faulty variant of getAlbums: a current record that does not parse is taken
\* for an absent one, and the legacy record is read
getAlbumsFallThrough(st, mode) ==
  IF getItemThrows(mode) THEN Read(<<>>, st, TRUE, FALSE)
  ELSE IF st.albums.kind = "json"
       THEN Read(JSONparse(st.albums), st, FALSE, FALSE)
  ELSE IF Truthy(st.legacy)
       THEN IF st.legacy.kind = "garbage"
            THEN Read(<<>>, st, TRUE, FALSE)
            ELSE LET collections == JSONparse(st.legacy)
                     saved == saveAlbums(st, collections, mode)
                 IN Read(collections, [saved EXCEPT !.legacy = AbsentItem],
                         st.albums.kind = "garbage", setItemThrows(mode))
  ELSE Read(<<>>, st, st.albums.kind = "garbage", FALSE)

getAlbums(st, mode) ==
  IF getItemThrows(mode) THEN Read(<<>>, st, TRUE, FALSE)
  ELSE IF Truthy(st.albums)
       THEN IF st.albums.kind = "garbage"
            THEN Read(<<>>, st, TRUE, FALSE)
            ELSE Read(JSONparse(st.albums), st, FALSE, FALSE)
  ELSE IF Truthy(st.legacy)
       THEN IF st.legacy.kind = "garbage"
            THEN Read(<<>>, st, TRUE, FALSE)
            ELSE LET collections == JSONparse(st.legacy)
                     saved == saveAlbums(st, collections, mode)
                 IN Read(collections, [saved EXCEPT !.legacy = AbsentItem],
                         FALSE, setItemThrows(mode))
  ELSE Read(<<>>, st, FALSE, FALSE)

\* albums.findIndex((a) => a.id === id): 0 stands for -1
findIndex(albums, id) ==
  IF \E i \in 1..Len(albums) : albums[i].id = id
  THEN CHOOSE i \in 1..Len(albums) :
         albums[i].id = id /\ \A j \in 1..(i - 1) : albums[j].id # id
  ELSE 0

NoId == <<-1, "none">>
NoAlbum == Album(NoId, <<>>, Undefined, <<>>, 0, 0)

\* an id no createAlbum produces
UnknownId == <<-1, "r1">>

\* the albums the record under the current key holds
StoredAlbums(st) == IF st.albums.kind = "json" THEN JSONparse(st.albums) ELSE <<>>

\* the ids of the albums the two stored records hold
StoredIds(st) ==
  { st.albums.val[i].id : i \in 1..Len(st.albums.val) }
    \cup { st.legacy.val[i].id : i \in 1..Len(st.legacy.val) }

\* the ids a caller passes: those of stored albums, and one of no album
AlbumIds == StoredIds(storage) \cup { UnknownId }

\* The outcome of one call: the storage it leaves, what it returns (ret is "album",
\* "null", "true", "false" or "list"), the album it found before changing it, and
\* the exceptions it caught.
Outcome(st, ret, album, before, list, readFailed, writeFailed) ==
  [st |-> st, ret |-> ret, album |-> album, before |-> before, list |-> list,
   readFailed |-> readFailed, writeFailed |-> writeFailed]

\* a call that found no album to act on
NotFound(r, ret) ==
  Outcome(r.st, ret, NoAlbum, NoAlbum, <<>>, r.readFailed, r.writeFailed)

\* a call that changed the list to albums and saved it
Saved(r, mode, albums, ret, album, before) ==
  Outcome(saveAlbums(r.st, albums, mode), ret, album, before, <<>>,
          r.readFailed, r.writeFailed \/ setItemThrows(mode))

\* The first album of the list with this id, if any
Holder(albums, id) ==
  IF findIndex(albums, id) = 0 THEN NoAlbum ELSE albums[findIndex(albums, id)]

\* the object literal of createAlbum
newAlbum(name, description, idTime, suffix, created, updated) ==
  Album(<<idTime, suffix>>, name, description, <<>>, created, updated)

\* createAlbum(name, description): Date.now() is read three times, for the id,
\* for createdAt and for updatedAt
createAlbum(st, mode, name, description, idTime, suffix, created, updated) ==
  LET r == getAlbums(st, mode)
      a == newAlbum(name, description, idTime, suffix, created, updated)
  IN Saved(r, mode, Append(r.ret, a), "album", a, Holder(r.ret, a.id))

\* A faulty variant of applyUpdates: the time stamp is reset to the creation time
applyUpdatesStale(a, updates, t) ==
  [a EXCEPT !.name = IF updates.hasName THEN updates.name ELSE @,
            !.description = IF updates.hasDescription THEN updates.description ELSE @,
            !.updatedAt = a.createdAt]

\* { ...albums[index], ...updates, updatedAt: Date.now() }
applyUpdates(a, updates, t) ==
  [a EXCEPT !.name = IF updates.hasName THEN updates.name ELSE @,
            !.description = IF updates.hasDescription THEN updates.description ELSE @,
            !.updatedAt = t]

updateAlbum(st, mode, id, updates, t) ==
  LET r == getAlbums(st, mode)
      index == findIndex(r.ret, id)
  IN IF index = 0 THEN NotFound(r, "null")
     ELSE LET albums == [r.ret EXCEPT ![index] = applyUpdates(r.ret[index], updates, t)]
          IN Saved(r, mode, albums, "album", albums[index], r.ret[index])

RECURSIVE FilterAlbums(_, _)
\* albums.filter((a) => a.id !== id)
FilterAlbums(albums, id) ==
  IF albums = <<>> THEN <<>>
  ELSE IF Head(albums).id = id THEN FilterAlbums(Tail(albums), id)
       ELSE <<Head(albums)>> \o FilterAlbums(Tail(albums), id)

deleteAlbum(st, mode, id) ==
  LET r == getAlbums(st, mode)
      filtered == FilterAlbums(r.ret, id)
  IN IF Len(filtered) = Len(r.ret) THEN NotFound(r, "false")
     ELSE Saved(r, mode, filtered, "true", NoAlbum, Holder(r.ret, id))

\* A faulty variant of addedTo: an id the album already holds is taken out
addedToToggle(a, assetIds, t) ==
  [a EXCEPT !.assetIds = FilterSeq(Dedup(a.assetIds), Range(assetIds))
                           \o FilterSeq(Dedup(assetIds), Range(a.assetIds)),
            !.updatedAt = t]

\* A faulty variant of addedTo: only the time stamp changes
addedToNothing(a, assetIds, t) ==
  [a EXCEPT !.updatedAt = t]

\* A faulty variant of addedTo: the ids are appended without a Set
addedToAppend(a, assetIds, t) ==
  [a EXCEPT !.assetIds = a.assetIds \o assetIds, !.updatedAt = t]

\* the album addAssetsToAlbum leaves: the ids through a Set, and the time stamp
addedTo(a, assetIds, t) ==
  [a EXCEPT !.assetIds = SetAddAll(Dedup(a.assetIds), assetIds), !.updatedAt = t]

addAssetsToAlbum(st, mode, albumId, assetIds, t) ==
  LET r == getAlbums(st, mode)
      index == findIndex(r.ret, albumId)
  IN IF index = 0 THEN NotFound(r, "null")
     ELSE LET albums == [r.ret EXCEPT ![index] = addedTo(r.ret[index], assetIds, t)]
          IN Saved(r, mode, albums, "album", albums[index], r.ret[index])

\* A faulty variant of removedFrom: the time stamp is reset to the creation time
removedFromStale(a, assetIds, t) ==
  [a EXCEPT !.assetIds = FilterSeq(a.assetIds, Range(assetIds)),
            !.updatedAt = a.createdAt]

\* the album removeAssetsFromAlbum leaves
removedFrom(a, assetIds, t) ==
  [a EXCEPT !.assetIds = FilterSeq(a.assetIds, Range(assetIds)), !.updatedAt = t]

removeAssetsFromAlbum(st, mode, albumId, assetIds, t) ==
  LET r == getAlbums(st, mode)
      index == findIndex(r.ret, albumId)
  IN IF index = 0 THEN NotFound(r, "null")
     ELSE LET albums == [r.ret EXCEPT ![index] = removedFrom(r.ret[index], assetIds, t)]
          IN Saved(r, mode, albums, "album", albums[index], r.ret[index])

\* albums.find((a) => a.id === id) || null
getAlbum(st, mode, id) ==
  LET r == getAlbums(st, mode)
      index == findIndex(r.ret, id)
  IN IF index = 0 THEN NotFound(r, "null")
     ELSE Outcome(r.st, "album", r.ret[index], r.ret[index], <<>>,
                  r.readFailed, r.writeFailed)

(***************************************************************************)
(* The album store as a state machine: one action per exported function.   *)
(***************************************************************************)
\* The record of a call: its name, its outcome, the exceptions it caught (each
\* shows in what it returns or in the console log), and the arguments it
\* applied to the album it found (a call that found no album records none).
Call(op, id, ids, o) ==
  [op |-> op,
   id |-> IF o.ret \in {"album", "true"} THEN id ELSE NoId,
   ids |-> IF o.ret = "album" THEN ids ELSE <<>>,
   ret |-> o.ret, album |-> o.album, before |-> o.before, list |-> o.list,
   readFailed |-> o.readFailed, writeFailed |-> o.writeFailed]

NoCall ==
  [op |-> "none", id |-> NoId, ids |-> <<>>,
   ret |-> "null", album |-> NoAlbum, before |-> NoAlbum, list |-> <<>>,
   readFailed |-> FALSE, writeFailed |-> FALSE]

\* The collection a previous version of the application left under the legacy key
LegacyId == <<0, "r0">>
LegacyCollection == << Album(LegacyId, <<"a", " ">>, Undefined, <<1>>, 0, 0) >>

\* What localStorage may hold when the application starts
InitialStorages ==
  { [albums |-> AbsentItem, legacy |-> AbsentItem],
    [albums |-> AbsentItem, legacy |-> JSONstringify(LegacyCollection)],
    [albums |-> AbsentItem, legacy |-> GarbageItem],
    [albums |-> GarbageItem, legacy |-> AbsentItem],
    [albums |-> GarbageItem, legacy |-> JSONstringify(LegacyCollection)] }

\* The documents (tabs) of the origin: they share localStorage, and each runs
\* the store's functions on its own
Tabs == { "t1", "t2" }

\* a document that is not inside a call of the store
IdleTab == [pc |-> "idle", op |-> [name |-> "none", ids |-> <<>>],
            snapshot |-> [albums |-> AbsentItem, legacy |-> AbsentItem],
            raced |-> FALSE, wrote |-> FALSE]

AlbumInit ==
  /\ storage \in InitialStorages
  /\ now = 0
  /\ lastOp = NoCall
  /\ nOps = 0
  /\ tabs = [tab \in Tabs |-> IdleTab]

\* The lists of asset ids a caller passes: one id, two ids, and a repeated id
IdLists ==
  { <<a>> : a \in Assets } \cup { <<1, 2>>, <<1, 1>> }

\* The `updates` argument of updateAlbum: a name or a description
Updates ==
  { [hasName |-> TRUE, name |-> n, hasDescription |-> FALSE, description |-> Undefined] :
      n \in Names }
  \cup
  { [hasName |-> FALSE, name |-> <<>>, hasDescription |-> TRUE, description |-> d] :
      d \in Descriptions \cup {Undefined} }

\* Date.now(): the clock never runs backwards. Only the order of time stamps is
\* observed, so the clock advances by at most one unit between two readings.
DateNow(t) == { u \in Times : t <= u /\ u <= t + 1 }

\* A faulty variant of Step: a call of the store marks every query stale
StepInvalidating(call, o, t) ==
  /\ nOps < MaxOps
  /\ storage' = o.st
  /\ lastOp' = call
  /\ now' = t
  /\ nOps' = nOps + 1
  /\ queries' = [k \in DOMAIN queries |-> [queries[k] EXCEPT !.isInvalidated = TRUE]]
  /\ UNCHANGED <<tabs, loaderVars, faces, phase, assetsToProcess, totalFacesUnassigned,
                 successCount, errorCount, transport, notification, invalidations,
                 asset, handled, pending, route>>

\* One call of a function of the store: it reads and writes localStorage and
\* the clock, and nothing else
Step(call, o, t) ==
  /\ nOps < MaxOps
  /\ storage' = o.st
  /\ lastOp' = call
  /\ now' = t
  /\ nOps' = nOps + 1
  /\ UNCHANGED <<tabs, loaderVars, bulkVars>>

GetAlbums ==
  /\ nOps < MaxOps
  /\ \E mode \in StoreModes :
       \E r \in { getAlbums(storage, mode) } :
         \E o \in { Outcome(r.st, "list", NoAlbum, NoAlbum, r.ret, r.readFailed,
                             r.writeFailed) } :
           Step(Call("getAlbums", NoId, <<>>, o), o, now)

\* createAlbum reads the clock three times
CreateAlbum ==
  /\ nOps < MaxOps
  /\ \E mode \in StoreModes, name \in Names, description \in Descriptions \cup {Undefined},
     suffix \in Suffixes :
    \E t1 \in DateNow(now) : \E t2 \in DateNow(t1) : \E t3 \in DateNow(t2) :
      /\ Len(getAlbums(storage, mode).ret) < MaxAlbums
      /\ \E o \in { createAlbum(storage, mode, name, description, t1, suffix, t2, t3) } :
           Step(Call("createAlbum", o.album.id, <<>>, o), o, t3)

\* A call that finds no album returns null whatever its other arguments are:
\* it is explored with one choice of them.
OneChoice(o, chosen) == o.ret = "null" => chosen

UpdateAlbum ==
  /\ nOps < MaxOps
  /\ \E mode \in StoreModes, id \in AlbumIds, updates \in Updates, t \in DateNow(now) :
    \E o \in { updateAlbum(storage, mode, id, updates, t) } :
       /\ OneChoice(o, id = UnknownId /\ ~updates.hasName
                         /\ updates.description = Undefined /\ t = now)
       /\ Step(Call("updateAlbum", id, <<>>, o), o, t)

DeleteAlbum ==
  /\ nOps < MaxOps
  /\ \E mode \in StoreModes, id \in AlbumIds :
    \E o \in { deleteAlbum(storage, mode, id) } :
       Step(Call("deleteAlbum", id, <<>>, o), o, now)

AddAssetsToAlbum ==
  /\ nOps < MaxOps
  /\ \E mode \in StoreModes, id \in AlbumIds, ids \in IdLists, t \in DateNow(now) :
    \E o \in { addAssetsToAlbum(storage, mode, id, ids, t) } :
       /\ OneChoice(o, id = UnknownId /\ ids = <<1>> /\ t = now)
       /\ Step(Call("addAssetsToAlbum", id, ids, o), o, t)

RemoveAssetsFromAlbum ==
  /\ nOps < MaxOps
  /\ \E mode \in StoreModes, id \in AlbumIds, ids \in IdLists, t \in DateNow(now) :
    \E o \in { removeAssetsFromAlbum(storage, mode, id, ids, t) } :
       /\ OneChoice(o, id = UnknownId /\ ids = <<1>> /\ t = now)
       /\ Step(Call("removeAssetsFromAlbum", id, ids, o), o, t)

GetAlbum ==
  /\ nOps < MaxOps
  /\ \E mode \in StoreModes, id \in AlbumIds :
    \E o \in { getAlbum(storage, mode, id) } :
       Step(Call("getAlbum", id, <<>>, o), o, now)

AlbumNext ==
  \/ GetAlbums
  \/ CreateAlbum
  \/ UpdateAlbum
  \/ DeleteAlbum
  \/ AddAssetsToAlbum
  \/ RemoveAssetsFromAlbum
  \/ GetAlbum

(***************************************************************************)
(* Two documents of the origin calling the store. A call is synchronous, so *)
(* within one document no other call runs between its getAlbums() and its  *)
(* saveAlbums(); another document shares localStorage and runs on its own,  *)
(* so its calls fall anywhere between the two.                              *)
(***************************************************************************)
\* The calls a document makes: all on the album the storage starts with
TabOps ==
  { [name |-> "addAssetsToAlbum", ids |-> <<2>>],
    [name |-> "addAssetsToAlbum", ids |-> <<3>>],
    [name |-> "removeAssetsFromAlbum", ids |-> <<1>>],
    [name |-> "updateAlbum", ids |-> <<>>],
    [name |-> "deleteAlbum", ids |-> <<>>],
    [name |-> "createAlbum", ids |-> <<>>] }

\* the call op made on the storage st the document read, at clock t
applyOp(op, st, t) ==
  CASE op.name = "addAssetsToAlbum" -> addAssetsToAlbum(st, "ok", LegacyId, op.ids, t)
    [] op.name = "removeAssetsFromAlbum" ->
         removeAssetsFromAlbum(st, "ok", LegacyId, op.ids, t)
    [] op.name = "updateAlbum" ->
         updateAlbum(st, "ok", LegacyId,
                     [hasName |-> FALSE, name |-> <<>>,
                      hasDescription |-> TRUE, description |-> "d"], t)
    [] op.name = "deleteAlbum" -> deleteAlbum(st, "ok", LegacyId)
    [] OTHER -> createAlbum(st, "ok", <<"a", " ">>, Undefined, t, "r1", t, t)

\* `const albums = getAlbums()`: the first statement of every mutating
\* function. The document now holds the list it read (and has migrated the
\* legacy record, if that is what it found).
TabReads ==
  \E tab \in Tabs, op \in TabOps :
    /\ tabs[tab].pc = "idle"
    /\ storage' = getAlbums(storage, "ok").st
    /\ tabs' = [tabs EXCEPT ![tab] = [pc |-> "read", op |-> op, snapshot |-> storage',
                                      raced |-> FALSE, wrote |-> FALSE]]
    /\ UNCHANGED <<now, lastOp, nOps, loaderVars, bulkVars>>

\* The rest of the function: it changes the list it read and hands the whole
\* list to saveAlbums, or returns without writing when it found no album.
\* raced records that another document wrote between this one's read and write.
TabWrites ==
  \E tab \in Tabs, t \in DateNow(now) :
    \E o \in { applyOp(tabs[tab].op, tabs[tab].snapshot, t) } :
      /\ tabs[tab].pc = "read"
      /\ now' = t
      /\ IF o.ret \in { "album", "true" }
           THEN /\ storage' = saveAlbums(storage, StoredAlbums(o.st), "ok")
                /\ tabs' = [u \in Tabs |->
                             IF u = tab THEN [tabs[u] EXCEPT !.pc = "done", !.wrote = TRUE]
                             ELSE IF tabs[u].pc = "read"
                                    THEN [tabs[u] EXCEPT !.raced = TRUE]
                                    ELSE tabs[u]]
           ELSE /\ storage' = storage
                /\ tabs' = [tabs EXCEPT ![tab].pc = "done"]
      /\ UNCHANGED <<lastOp, nOps, loaderVars, bulkVars>>

TabsNext ==
  \/ TabReads
  \/ TabWrites

(***************************************************************************)
(* The dependent page loader of the albums page.                           *)
(***************************************************************************)
MaxPages == 3       \* the server's catalog has 1..MaxPages pages
MaxFailures == 1    \* page requests the transport fails, per behaviour

RECURSIVE Ascending(_)
\* the elements of a finite set of numbers, in increasing order
Ascending(S) ==
  IF S = {} THEN <<>>
  ELSE LET m == CHOOSE x \in S : \A y \in S : x <= y
       IN <<m>> \o Ascending(S \ {m})

\* null
NoSelection == [selected |-> FALSE, assetIds |-> <<>>]

\* the albums the user can select: the loader reads their assetIds only
SelectableAlbums == { [selected |-> TRUE, assetIds |-> Ascending(S)] : S \in SUBSET Assets }

\* The server's listings: every asset on at most one page, and no empty page
\* except in a listing of one page. Asset ids are names only, so the listings
\* are taken up to renaming: the server lists the assets 1..k in this order,
\* and the albums range over every set of ids, listed or not.
Catalogs ==
  { c \in UNION { [1..n -> SUBSET Assets] : n \in 1..MaxPages } :
      /\ \A i, j \in 1..Len(c) : i # j => c[i] \cap c[j] = {}
      /\ Len(c) > 1 => \A i \in 1..Len(c) : c[i] # {}
      /\ \E k \in 0..MaxAssetId : UNION { c[i] : i \in 1..Len(c) } = 1..k
      /\ \A i, j \in 1..Len(c) : i < j => \A x \in c[i], y \in c[j] : x < y }

\* A faulty variant of allAssets: only the last page loaded is looked at
allAssetsLastPage(cat, n) == IF n = 0 THEN {} ELSE cat[n]

\* assetsData?.pages.flatMap((p) => p.items) ?? [], as the ids it holds
allAssets(cat, n) == UNION { cat[i] : i \in 1..n }

\* hasNextPage: false while no page is loaded, then the server's signal
hasNextPage(cat, n) == n > 0 /\ n < Len(cat)

\* what useAssetsInfinite returns to a render
QueryResult ==
  [pages |-> pagesLoaded, isFetchingNextPage |-> isFetchingNextPage]

\* A faulty variant of missing: no id ever counts as missing
missingNone(album, loadedIds) == <<>>

\* selectedAlbum.assetIds.filter((id) => !loadedIds.has(id))
missing(album, loadedIds) == FilterSeq(album.assetIds, loadedIds)

\* selectedAlbum.assetIds.map((id) => assetMap.get(id)).filter(Boolean): the
\* ids of the album that a loaded page holds, in the album's order
albumAssets(album, loadedIds) ==
  IF album.selected THEN FilterSeq(album.assetIds, Range(album.assetIds) \ loadedIds)
  ELSE <<>>

\* A faulty variant of shouldReturn: hasNextPage is not looked at
shouldReturnIgnoringMore(album, more, fetching) == ~album.selected \/ fetching

\* A faulty variant of shouldReturn: the fetch in progress is not looked at
shouldReturnUnguarded(album, more, fetching) == ~album.selected \/ ~more

\* if (!selectedAlbum || !hasNextPage || isFetchingNextPage) return;
shouldReturn(album, more, fetching) == ~album.selected \/ ~more \/ fetching

\* A faulty variant of fetchesNext: pages are requested whatever is missing
fetchesNextAlways(album, cat, view) ==
  ~shouldReturn(album, hasNextPage(cat, view.pages), view.isFetchingNextPage)

\* the effect calls fetchNextPage()
fetchesNext(album, cat, view) ==
  /\ ~shouldReturn(album, hasNextPage(cat, view.pages), view.isFetchingNextPage)
  /\ Len(missing(album, allAssets(cat, view.pages))) > 0

LoaderInit ==
  /\ catalog \in Catalogs
  /\ selectedAlbum = NoSelection
  /\ pagesLoaded = 0
  /\ isFetchingNextPage = FALSE
  /\ inFlight = 1                 \* the query requests its first page when mounted
  /\ fetches = 0
  /\ failures = 0
  /\ rendered = [pages |-> 0, isFetchingNextPage |-> FALSE]
  /\ effectDue = TRUE
  /\ lastEffect = "none"

\* A render: it reads the query result; allAssets is a new array in every
\* render, so the effect runs after every render. React runs the effect of a
\* render before it renders again.
Commit ==
  /\ ~effectDue
  /\ rendered' = QueryResult
  /\ effectDue' = TRUE
  /\ UNCHANGED <<albumVars, bulkVars>>

\* setSelectedAlbum(album) or setSelectedAlbum(null), and the render it causes
SetSelectedAlbum ==
  \E a \in SelectableAlbums \cup { NoSelection } :
    /\ a # selectedAlbum
    /\ Commit
    /\ selectedAlbum' = a
    /\ UNCHANGED <<catalog, pagesLoaded, isFetchingNextPage, inFlight, fetches,
                   failures, lastEffect>>

\* a render for any other reason: new query result, other state of the page
Render ==
  /\ Commit
  /\ UNCHANGED <<catalog, selectedAlbum, pagesLoaded, isFetchingNextPage, inFlight,
                 fetches, failures, lastEffect>>

\* the loader effect, with the values of the render it belongs to
LoaderEffect ==
  /\ effectDue
  /\ effectDue' = FALSE
  /\ IF fetchesNext(selectedAlbum, catalog, rendered)
     THEN /\ inFlight' = inFlight + 1          \* fetchNextPage()
          /\ isFetchingNextPage' = TRUE
          /\ fetches' = fetches + 1
          /\ lastEffect' = "fetched"
     ELSE /\ lastEffect' = "returned"
          /\ UNCHANGED <<inFlight, isFetchingNextPage, fetches>>
  /\ UNCHANGED <<catalog, selectedAlbum, pagesLoaded, failures, rendered>>
  /\ UNCHANGED <<albumVars, bulkVars>>

\* a page request is answered: the page is appended to the cache entry
PageArrives ==
  /\ inFlight > 0
  /\ inFlight' = inFlight - 1
  /\ pagesLoaded' = IF pagesLoaded < Len(catalog) THEN pagesLoaded + 1 ELSE pagesLoaded
  /\ isFetchingNextPage' = FALSE
  /\ UNCHANGED <<catalog, selectedAlbum, fetches, failures, rendered, effectDue,
                 lastEffect>>
  /\ UNCHANGED <<albumVars, bulkVars>>

\* a page request fails in the transport
PageFails ==
  /\ inFlight > 0
  /\ failures < MaxFailures
  /\ inFlight' = inFlight - 1
  /\ failures' = failures + 1
  /\ isFetchingNextPage' = FALSE
  /\ UNCHANGED <<catalog, selectedAlbum, pagesLoaded, fetches, rendered, effectDue,
                 lastEffect>>
  /\ UNCHANGED <<albumVars, bulkVars>>

LoaderNext ==
  \/ SetSelectedAlbum
  \/ Render
  \/ LoaderEffect
  \/ PageArrives
  \/ PageFails

\* the loader at rest, for the specifications of the other components
LoaderAtRest ==
  /\ catalog = << {} >>
  /\ selectedAlbum = NoSelection
  /\ pagesLoaded = 0
  /\ isFetchingNextPage = FALSE
  /\ inFlight = 0
  /\ fetches = 0
  /\ failures = 0
  /\ rendered = [pages |-> 0, isFetchingNextPage |-> FALSE]
  /\ effectDue = FALSE
  /\ lastEffect = "none"

(***************************************************************************)
(* The bulk "unassign from person" handler of the asset card.              *)
(***************************************************************************)
MaxSelected == 3    \* the gallery of the bulk handler holds assets 1..MaxSelected

BulkAssets == 1..MaxSelected

\* personId of the card, and another person
ThePerson == "p"
OtherPerson == "q"
Unassigned == "nobody"

\* the faces an asset may have
FaceLists ==
  { <<OtherPerson>>, <<ThePerson>>, <<ThePerson, OtherPerson, ThePerson>> }

\* the positions of faces.filter((f) => f.person_id === personId)
matches(faceList, personId) == { i \in 1..Len(faceList) : faceList[i] = personId }

\* what the transport did to the calls made for one asset: nothing yet, the
\* listing failed, or the listing gave `matched` faces of the person and the
\* reassignment of the faces in `rejected` failed
NotCalled == [listed |-> "no", matched |-> 0, rejected |-> {}]
ListingFailed == [listed |-> "failed", matched |-> 0, rejected |-> {}]
Listed(m, rejected) == [listed |-> "ok", matched |-> Cardinality(m), rejected |-> rejected]

Counts(total, success, error) ==
  [totalFacesUnassigned |-> total, successCount |-> success, errorCount |-> error]

\* A faulty variant of counted: an asset without a face of the person is a success
countedLoose(c, t) ==
  IF t.listed = "failed" \/ t.rejected # {}
  THEN Counts(c.totalFacesUnassigned, c.successCount, c.errorCount + 1)
  ELSE Counts(c.totalFacesUnassigned + t.matched, c.successCount + 1, c.errorCount)

\* One iteration of the loop: the try block up to the first call that throws,
\* and the catch block
counted(c, t) ==
  IF t.listed = "failed" THEN Counts(c.totalFacesUnassigned, c.successCount, c.errorCount + 1)
  ELSE IF t.matched > 0
       THEN IF t.rejected # {}
            THEN Counts(c.totalFacesUnassigned, c.successCount, c.errorCount + 1)
            ELSE Counts(c.totalFacesUnassigned + t.matched, c.successCount + 1,
                        c.errorCount)
       ELSE c

\* A faulty variant of afterItem: a failure ends the loop
afterItemAbort(items, t) ==
  IF t.listed = "failed" \/ t.rejected # {} THEN <<>> ELSE Tail(items)

\* the for loop over assetsToProcess: the catch block is inside the loop, so
\* the loop goes on to the next asset whatever the transport did
afterItem(items, t) == Tail(items)

NoAsset == 0

(***************************************************************************)
(* The query cache, as the card's handlers use it.                         *)
(***************************************************************************)
\* a person that is neither the card's nor the target of a merge
ThirdPerson == "r"
Persons == { ThePerson, OtherPerson, ThirdPerson }
NoPerson == "none"     \* a key without a person, a view of no person
AnyPerson == "any"     \* a filter that names no person

\* Query keys: ['persons'], ['faceProgress'], ['unassignedFaces'],
\* ['personAssets', id], ['personFace', id], and ['assets', params] where params
\* holds a person_id (a person's gallery) or none (the default gallery)
QueryKey(name, person) == [name |-> name, person |-> person]

QueryKeys ==
  { QueryKey(n, NoPerson) : n \in { "persons", "faceProgress", "unassignedFaces", "assets" } }
    \cup { QueryKey(n, p) : n \in { "personAssets", "personFace", "assets" }, p \in Persons }

AssetsKeys == { k \in QueryKeys : k.name = "assets" }

\* A cache entry: its pages of asset ids (InfiniteData.pages[].items[].id) and
\* its stale mark. A key the cache does not hold has the entry NotCached.
Entry(pages, isInvalidated) ==
  [cached |-> TRUE, pages |-> pages, isInvalidated |-> isInvalidated]
NotCached == [cached |-> FALSE, pages |-> <<>>, isInvalidated |-> FALSE]

\* the assets an entry lists
listedIds(e) == UNION { Range(e.pages[i]) : i \in 1..Len(e.pages) }

\* queryClient.invalidateQueries({ queryKey: [name] }) or [name, person]: the
\* entries whose key starts with the filter's key are marked stale
invalidateQueries(qs, name, person) ==
  [k \in QueryKeys |->
     IF k.name = name /\ (person = AnyPerson \/ k.person = person) /\ qs[k].cached
     THEN [qs[k] EXCEPT !.isInvalidated = TRUE]
     ELSE qs[k]]

\* data.pages.map(page => page.items.filter(item => item.id !== asset.id))
filterPages(pages, assetId) ==
  [i \in 1..Len(pages) |-> FilterSeq(pages[i], {assetId})]

\* removeAssetFromPersonCaches(targetPersonId): the card's asset is filtered out
\* of the pages of the 'assets' entries whose person_id is targetPersonId;
\* setQueryData stores the new pages and clears the entry's stale mark
removeAssetFromPersonCaches(qs, targetPersonId, assetId) ==
  [k \in QueryKeys |->
     IF k.name = "assets" /\ k.person = targetPersonId /\ qs[k].cached
        /\ assetId \in listedIds(qs[k])
     THEN Entry(filterPages(qs[k].pages, assetId), FALSE)
     ELSE qs[k]]

\* A faulty variant of unassignInvalidations: the person's entries are patched
\* after the 'assets' entries are invalidated
unassignInvalidationsPatchLast(qs, personId, assetId) ==
  LET q1 == invalidateQueries(qs, "persons", AnyPerson)
      q2 == invalidateQueries(q1, "personAssets", personId)
      q3 == invalidateQueries(q2, "personFace", personId)
      q4 == invalidateQueries(q3, "faceProgress", AnyPerson)
      q5 == invalidateQueries(q4, "unassignedFaces", AnyPerson)
      q6 == invalidateQueries(q5, "assets", AnyPerson)
  IN removeAssetFromPersonCaches(q6, personId, assetId)

\* handleUnassignFromPerson, after the loop: the invalidations and the patch
unassignInvalidations(qs, personId, assetId) ==
  LET q1 == invalidateQueries(qs, "persons", AnyPerson)
      q2 == invalidateQueries(q1, "personAssets", personId)
      q3 == invalidateQueries(q2, "personFace", personId)
      q4 == invalidateQueries(q3, "faceProgress", AnyPerson)
      q5 == invalidateQueries(q4, "unassignedFaces", AnyPerson)
      q6 == removeAssetFromPersonCaches(q5, personId, assetId)
  IN invalidateQueries(q6, "assets", AnyPerson)

\* mergeMutation.onSuccess: the invalidations
mergeInvalidations(qs) ==
  LET q1 == invalidateQueries(qs, "persons", AnyPerson)
      q2 == invalidateQueries(q1, "personAssets", AnyPerson)
      q3 == invalidateQueries(q2, "personFace", AnyPerson)
      q4 == invalidateQueries(q3, "faceProgress", AnyPerson)
  IN invalidateQueries(q4, "unassignedFaces", AnyPerson)

\* the onDelete callback of the card's parent: the deleted asset is filtered out
\* of the pages of every paginated entry, and nothing is invalidated
onDelete(qs, assetId) ==
  [k \in QueryKeys |->
     IF qs[k].cached /\ assetId \in listedIds(qs[k])
     THEN [qs[k] EXCEPT !.pages = filterPages(@, assetId)]
     ELSE qs[k]]

\* window.location.reload(): the page starts again with an empty query cache
reload == [k \in QueryKeys |-> NotCached]

\* the handler that ran: its name, the assets it was to process, the person
\* the merge moved the faces to
NoResult == [permanent |-> FALSE, rejects |-> FALSE, success |-> FALSE,
             read_only |-> FALSE, path |-> FALSE]
Handled(op, ids, target) ==
  [op |-> op, ids |-> ids, target |-> target, result |-> NoResult]

\* What assetApi.delete(asset.id, { permanent: deleteOriginalFiles }) does: it
\* rejects, or it resolves with success and, for a deletion from disk that
\* failed, with read_only and with or without the path of the file
DeleteResults ==
  { [permanent |-> p, rejects |-> TRUE, success |-> FALSE, read_only |-> FALSE,
     path |-> FALSE] : p \in BOOLEAN }
    \cup { [permanent |-> p, rejects |-> FALSE, success |-> s, read_only |-> FALSE,
            path |-> FALSE] : p, s \in BOOLEAN }
    \cup { [permanent |-> TRUE, rejects |-> FALSE, success |-> FALSE, read_only |-> TRUE,
            path |-> hasPath] : hasPath \in BOOLEAN }

\* A faulty variant of deleteBranch: the result of a removal from the index is
\* not looked at
deleteBranchUnchecked(result) ==
  IF result.rejects THEN "alertFailed"
  ELSE IF result.permanent
       THEN IF ~result.success
            THEN IF result.read_only THEN "alertReadOnly" ELSE "alertFailed"
            ELSE "reconcile"
       ELSE "reconcile"

\* handleDeleteConfirm: the way it leaves, given what the deletion service did
deleteBranch(result) ==
  IF result.rejects THEN "alertFailed"
  ELSE IF result.permanent
       THEN IF ~result.success
            THEN IF result.read_only THEN "alertReadOnly" ELSE "alertFailed"
            ELSE "reconcile"
       ELSE IF ~result.success THEN "alertFailed" ELSE "reconcile"

\* the text handleDeleteConfirm alerts
deleteAlert(result) ==
  IF deleteBranch(result) = "alertReadOnly"
  THEN IF result.path THEN "alert: Unable to delete, the file is read-only (path)"
       ELSE "alert: Unable to delete, the file is read-only"
  ELSE "alert: Delete failed"

HandledDelete(op, ids, result) ==
  [op |-> op, ids |-> ids, target |-> NoPerson, result |-> result]

\* the pages of the galleries the cache holds at first
GalleryPages == << <<1>>, [i \in 1..(MaxSelected - 1) |-> i + 1] >>
PersonPages == << <<1, 2>> >>

\* The cache when a handler starts: every key is cached and fresh and the
\* galleries list the card's asset, or only the default gallery and the lists
\* of the card's person are cached
InitialQueries ==
  { [k \in QueryKeys |->
       IF k.name # "assets" THEN Entry(<<>>, FALSE)
       ELSE IF k.person = NoPerson THEN Entry(GalleryPages, FALSE)
       ELSE Entry(PersonPages, FALSE)],
    [k \in QueryKeys |->
       IF k.name = "assets" /\ k.person = NoPerson THEN Entry(GalleryPages, FALSE)
       ELSE IF k.name = "assets" /\ k.person = ThePerson THEN Entry(PersonPages, TRUE)
       ELSE IF k.name = "persons" THEN Entry(<<>>, FALSE)
       ELSE NotCached] }

BulkInit ==
  /\ faces \in [BulkAssets -> FaceLists]
  /\ phase = "idle"
  /\ assetsToProcess = <<>>
  /\ totalFacesUnassigned = 0
  /\ successCount = 0
  /\ errorCount = 0
  /\ transport = [a \in BulkAssets |-> NotCalled]
  /\ notification = "none"
  /\ invalidations = 0
  /\ asset \in BulkAssets
  /\ handled = Handled("none", {}, NoPerson)
  /\ pending = NoAsset
  /\ queries \in InitialQueries
  /\ route = ThePerson

\* handleUnassignFromPerson without a personId: it returns at once
ReturnWithoutPerson ==
  /\ phase = "idle"
  /\ phase' = "done"
  /\ UNCHANGED <<faces, assetsToProcess, totalFacesUnassigned, successCount,
                 errorCount, transport, notification, invalidations, cardVars>>
  /\ UNCHANGED <<albumVars, loaderVars>>

\* handleUnassignFromPerson: the selection, or the card's own asset
StartUnassign ==
  \E selectedIds \in SUBSET BulkAssets :
    /\ phase = "idle"
    /\ phase' = "loop"
    /\ assetsToProcess' = IF Cardinality(selectedIds) > 0 THEN Ascending(selectedIds)
                          ELSE <<asset>>
    /\ handled' = Handled("unassign", Range(assetsToProcess'), NoPerson)
    /\ UNCHANGED <<faces, totalFacesUnassigned, successCount, errorCount, transport,
                   notification, invalidations, asset, pending, queries, route>>
    /\ UNCHANGED <<albumVars, loaderVars>>

\* the loop takes the next asset and calls api.getAssetFaces(assetId) for it
DispatchItem ==
  /\ phase = "loop"
  /\ assetsToProcess # <<>>
  /\ pending = NoAsset
  /\ pending' = Head(assetsToProcess)
  /\ UNCHANGED <<faces, phase, assetsToProcess, totalFacesUnassigned, successCount,
                 errorCount, transport, notification, invalidations, asset, handled,
                 queries, route>>
  /\ UNCHANGED <<albumVars, loaderVars>>

\* the loop's state after the iteration for the first asset left, given what
\* the transport did
Iterate(t) ==
  LET c == counted(Counts(totalFacesUnassigned, successCount, errorCount), t)
  IN /\ totalFacesUnassigned' = c.totalFacesUnassigned
     /\ successCount' = c.successCount
     /\ errorCount' = c.errorCount
     /\ transport' = [transport EXCEPT ![Head(assetsToProcess)] = t]
     /\ assetsToProcess' = afterItem(assetsToProcess, t)
     /\ pending' = NoAsset
     /\ UNCHANGED <<phase, notification, invalidations, asset, handled, queries, route>>
     /\ UNCHANGED <<albumVars, loaderVars>>

\* the calls made for the first asset left are awaited
InLoop == phase = "loop" /\ assetsToProcess # <<>> /\ pending = Head(assetsToProcess)

\* api.getAssetFaces(assetId) throws
GetAssetFacesFails ==
  /\ InLoop
  /\ Iterate(ListingFailed)
  /\ UNCHANGED faces

\* the asset has no face of the person: nothing is called
NoMatchingFaces ==
  /\ InLoop
  /\ matches(faces[Head(assetsToProcess)], ThePerson) = {}
  /\ Iterate(Listed({}, {}))
  /\ UNCHANGED faces

\* Promise.all over assignFaceToPerson(face.id, null): the calls are all made;
\* those in `rejected` fail and the others unassign their face
AssignFacesToNobody ==
  /\ InLoop
  /\ LET assetId == Head(assetsToProcess)
         m == matches(faces[assetId], ThePerson)
     IN /\ m # {}
        /\ \E rejected \in SUBSET m :
             /\ Iterate(Listed(m, rejected))
             /\ faces' = [faces EXCEPT ![assetId] =
                            [i \in 1..Len(@) |-> IF i \in m \ rejected THEN Unassigned
                                                 ELSE @[i]]]

\* after the loop: the early return, or the invalidations and the summary
FinishUnassign ==
  /\ phase = "loop"
  /\ assetsToProcess = <<>>
  /\ pending = NoAsset
  /\ phase' = "done"
  /\ IF totalFacesUnassigned = 0 /\ successCount = 0
     THEN /\ notification' = "No faces to unassign on selected assets"
          /\ UNCHANGED <<invalidations, queries>>
     ELSE /\ invalidations' = invalidations + 1
          /\ queries' = unassignInvalidations(queries, ThePerson, asset)
          /\ notification' = IF errorCount > 0 THEN "removed, some failed" ELSE "removed"
  /\ UNCHANGED <<faces, assetsToProcess, totalFacesUnassigned, successCount,
                 errorCount, transport, asset, handled, pending, route>>
  /\ UNCHANGED <<albumVars, loaderVars>>

\* what a handler other than the unassign handler leaves alone
LoopUnchanged ==
  UNCHANGED <<faces, assetsToProcess, totalFacesUnassigned, successCount, errorCount,
              transport, invalidations, asset, pending>>

\* handleAssignConfirm without a target or without a personId: nothing is done
AssignConfirmIgnored ==
  /\ phase = "idle"
  /\ phase' = "done"
  /\ handled' = Handled("assignIgnored", {}, NoPerson)
  /\ LoopUnchanged
  /\ UNCHANGED <<notification, queries, route>>
  /\ UNCHANGED <<albumVars, loaderVars>>

\* mergeMutation: api.mergePersons(personId, targetPersonId) succeeds, and
\* onSuccess invalidates, navigates to the target's gallery and notifies. The
\* dialog offers every person but the card's.
MergeOnSuccess ==
  \E targetPersonId \in Persons \ { ThePerson } :
    /\ phase = "idle"
    /\ phase' = "done"
    /\ handled' = Handled("merge", {}, targetPersonId)
    /\ queries' = mergeInvalidations(queries)
    /\ route' = targetPersonId
    /\ notification' = "Merged"
    /\ LoopUnchanged
    /\ UNCHANGED <<albumVars, loaderVars>>

\* mergeMutation: api.mergePersons rejects, and onError alerts
MergeOnError ==
  \E targetPersonId \in Persons \ { ThePerson } :
    /\ phase = "idle"
    /\ phase' = "done"
    /\ handled' = Handled("mergeFailed", {}, targetPersonId)
    /\ notification' = "alert: Failed to assign person"
    /\ LoopUnchanged
    /\ UNCHANGED <<queries, route>>
    /\ UNCHANGED <<albumVars, loaderVars>>

\* handleDeleteConfirm: assetApi.delete succeeds; the parent's onDelete is
\* called when the card was given one, and the page is reloaded otherwise
DeleteSucceeds ==
  \E hasOnDelete \in BOOLEAN, result \in DeleteResults :
    /\ phase = "idle"
    /\ deleteBranch(result) = "reconcile"
    /\ phase' = "done"
    /\ handled' = HandledDelete("delete", {asset}, result)
    /\ queries' = IF hasOnDelete THEN onDelete(queries, asset) ELSE reload
    /\ LoopUnchanged
    /\ UNCHANGED <<notification, route>>
    /\ UNCHANGED <<albumVars, loaderVars>>

\* handleDeleteConfirm: assetApi.delete throws, or its result is not a
\* success (a read-only file, or an error that is thrown and caught): an alert
DeleteFails ==
  \E result \in DeleteResults :
    /\ phase = "idle"
    /\ deleteBranch(result) # "reconcile"
    /\ phase' = "done"
    /\ handled' = HandledDelete("deleteFailed", {asset}, result)
    /\ notification' = deleteAlert(result)
    /\ LoopUnchanged
    /\ UNCHANGED <<queries, route>>
    /\ UNCHANGED <<albumVars, loaderVars>>

BulkNext ==
  \/ ReturnWithoutPerson
  \/ StartUnassign
  \/ DispatchItem
  \/ GetAssetFacesFails
  \/ NoMatchingFaces
  \/ AssignFacesToNobody
  \/ FinishUnassign
  \/ AssignConfirmIgnored
  \/ MergeOnSuccess
  \/ MergeOnError
  \/ DeleteSucceeds
  \/ DeleteFails

\* the handler at rest, for the specifications of the other components
BulkAtRest ==
  /\ faces = [a \in BulkAssets |-> <<OtherPerson>>]
  /\ phase = "idle"
  /\ assetsToProcess = <<>>
  /\ totalFacesUnassigned = 0
  /\ successCount = 0
  /\ errorCount = 0
  /\ transport = [a \in BulkAssets |-> NotCalled]
  /\ notification = "none"
  /\ invalidations = 0
  /\ asset = 1
  /\ handled = Handled("none", {}, NoPerson)
  /\ pending = NoAsset
  /\ queries = (CHOOSE q \in InitialQueries : \A k \in QueryKeys : q[k].cached)
  /\ route = NoPerson

(***************************************************************************)
(* Specifications.                                                         *)
(***************************************************************************)
\* the album store at rest, for the specifications of the other components
AlbumsAtRest ==
  /\ storage = [albums |-> AbsentItem, legacy |-> AbsentItem]
  /\ now = 0
  /\ lastOp = NoCall
  /\ nOps = 0
  /\ tabs = [tab \in Tabs |-> IdleTab]

AlbumsInit == AlbumInit /\ LoaderAtRest /\ BulkAtRest

\* the storage holds one album, under the current key or under the legacy key
TabsStart ==
  /\ storage \in { [albums |-> JSONstringify(LegacyCollection), legacy |-> AbsentItem],
                    [albums |-> AbsentItem, legacy |-> JSONstringify(LegacyCollection)] }
  /\ now = 0
  /\ lastOp = NoCall
  /\ nOps = 0
  /\ tabs = [tab \in Tabs |-> IdleTab]

TabsInit == TabsStart /\ LoaderAtRest /\ BulkAtRest
LoaderPageInit == LoaderInit /\ AlbumsAtRest /\ BulkAtRest
BulkHandlerInit == BulkInit /\ AlbumsAtRest /\ LoaderAtRest

SpecAlbums == AlbumsInit /\ [][AlbumNext]_vars

SpecLoader == LoaderPageInit /\ [][LoaderNext]_vars

SpecTabs == TabsInit /\ [][TabsNext]_vars

\* The loader against a server that fails every request for a further page:
\* the first page is loaded, an album is selected and rendered, and from then
\* on no page arrives
FailingServerStart ==
  /\ catalog \in { c \in Catalogs : Len(c) > 1 }
  /\ selectedAlbum \in SelectableAlbums
  /\ pagesLoaded = 1
  /\ isFetchingNextPage = FALSE
  /\ inFlight = 0
  /\ fetches = 0
  /\ failures = 0
  /\ rendered = [pages |-> 1, isFetchingNextPage |-> FALSE]
  /\ effectDue = TRUE
  /\ lastEffect = "returned"

FailingServerInit == FailingServerStart /\ AlbumsAtRest /\ BulkAtRest

FailingServerNext ==
  \/ Render
  \/ LoaderEffect
  \/ PageFails

SpecLoaderFailing == FailingServerInit /\ [][FailingServerNext]_vars

SpecBulk == BulkHandlerInit /\ [][BulkNext]_vars

\* every request is answered at last, and React renders and runs effects
SpecLoaderFair ==
  /\ SpecLoader
  /\ WF_vars(PageArrives)
  /\ WF_vars(Render)
  /\ WF_vars(LoaderEffect)

(***************************************************************************)
(* Properties of the album store.                                          *)
(***************************************************************************)
\* the collection a reader of a working store sees
Collection(st) == getAlbums(st, "ok").ret

\* the membership of an album: its assetIds as a set
Members(a) == Range(a.assetIds)

\* the call was op and it returned an album
Returned(call, op) == call.op = op /\ call.ret = "album"

\* C1: for every valid (name, description), createAlbum followed by getAlbum of
\* the returned id gives an album with the same name and description, empty
\* assetIds, and createdAt equal to updatedAt. Stated for a creation that caught
\* no exception and whose id no stored album had.
C1_CreateThenGet ==
  ( /\ Returned(lastOp, "createAlbum")
    /\ Trim(lastOp.album.name) # <<>>
    /\ ~lastOp.readFailed /\ ~lastOp.writeFailed
    /\ lastOp.before = NoAlbum )
  => LET g == getAlbum(storage, "ok", lastOp.album.id)
     IN /\ g.ret = "album"
        /\ g.album.name = lastOp.album.name
        /\ g.album.description = lastOp.album.description
        /\ g.album.assetIds = <<>>
        /\ g.album.createdAt = g.album.updatedAt

\* C2: createAlbum with a name that is empty after trimming fails with a
\* ValidationError and leaves the collection as it was.
C2_BlankNameRejected ==
  [][ (lastOp'.op = "createAlbum" /\ Trim(lastOp'.album.name) = <<>>)
      => (lastOp'.ret = "throw" /\ Collection(storage') = Collection(storage)) ]_vars

\* C3: with only the legacy record present, a getAlbums call that reads it
\* returns the legacy contents, leaves no legacy key, and leaves the same
\* contents under the current key for every later getAlbums call.
C3_LegacyMigration ==
  [][ ( /\ lastOp'.op = "getAlbums"
        /\ ~lastOp'.readFailed
        /\ ~Truthy(storage.albums)
        /\ storage.legacy.kind = "json" )
      => ( /\ lastOp'.list = JSONparse(storage.legacy)
           /\ storage'.legacy = AbsentItem
           /\ storage'.albums.kind = "json"
           /\ Collection(storage') = JSONparse(storage.legacy) ) ]_vars

\* C4: addAssetsToAlbum is idempotent on membership: a second call with the
\* same album and the same list returns the membership the first returned, and
\* when it is saved the stored membership is that one too.
C4_AddIdempotent ==
  [][ ( /\ Returned(lastOp, "addAssetsToAlbum")
        /\ Returned(lastOp', "addAssetsToAlbum")
        /\ nOps' = nOps + 1
        /\ lastOp'.id = lastOp.id
        /\ lastOp'.ids = lastOp.ids )
      => ( /\ Members(lastOp'.album) = Members(lastOp.album)
           /\ ~lastOp'.writeFailed =>
                Members(Holder(StoredAlbums(storage'), lastOp'.id))
                  = Members(lastOp.album) ) ]_vars

\* C4 happens: the legacy album, to which asset 2 was added, is given an
\* addition of ids it already holds, and the addition is saved
C4_Witness ==
  /\ Returned(lastOp, "addAssetsToAlbum")
  /\ nOps = 2
  /\ lastOp.id = LegacyId
  /\ lastOp.before.assetIds = <<1, 2>>
  /\ 2 \in Range(lastOp.ids)
  /\ lastOp.album.assetIds = <<1, 2>>
  /\ ~lastOp.writeFailed

\* a removal followed by an addition of the same list to the same album
RemoveThenAdd ==
  /\ Returned(lastOp, "removeAssetsFromAlbum")
  /\ Returned(lastOp', "addAssetsToAlbum")
  /\ nOps' = nOps + 1
  /\ lastOp'.id = lastOp.id
  /\ lastOp'.ids = lastOp.ids

\* C5 as stated: for every album and id list, removeAssetsFromAlbum followed by
\* addAssetsToAlbum of the same ids restores the membership the album had
\* before the removal.
C5_RoundTripAnyIds ==
  [][ RemoveThenAdd => Members(lastOp'.album) = Members(lastOp.before) ]_vars

\* C5: for every album and every id list all of whose ids are members of the
\* album, removeAssetsFromAlbum followed by addAssetsToAlbum of the same ids
\* restores the membership the album had before the removal.
C5_RoundTripOfMembers ==
  [][ (RemoveThenAdd /\ Range(lastOp.ids) \subseteq Members(lastOp.before))
      => ( /\ Members(lastOp'.album) = Members(lastOp.before)
           /\ ~lastOp'.writeFailed =>
                Members(Holder(StoredAlbums(storage'), lastOp'.id))
                  = Members(lastOp.before) ) ]_vars

\* C5 happens: asset 1 was removed from the legacy album, which then held no
\* asset, and the addition of asset 1 gives it back
C5_Witness ==
  /\ Returned(lastOp, "addAssetsToAlbum")
  /\ nOps = 2
  /\ lastOp.id = LegacyId
  /\ lastOp.before.assetIds = <<>>
  /\ Range(lastOp.ids) = {1}
  /\ lastOp.album.assetIds = <<1>>
  /\ ~lastOp.writeFailed

Unloaded == Range(selectedAlbum.assetIds) \ allAssets(catalog, pagesLoaded)

\* the server's listing holds every member of the album
Served(a) == Range(a.assetIds) \subseteq allAssets(catalog, Len(catalog))

\* C7: the loader never issues a second fetchNextPage while a page request is
\* outstanding for the gallery cache entry, however often its effect runs: at
\* most one request is in flight in every reachable state.
C7_OneFetchInFlight == inFlight <= 1

\* C7 happens: a request the loader made is outstanding, more pages exist,
\* members of the selected album are missing, and the effect is about to run
\* again after a render that saw the request
C7_Witness ==
  /\ inFlight = 1
  /\ fetches > 0
  /\ isFetchingNextPage
  /\ effectDue
  /\ rendered = QueryResult
  /\ selectedAlbum.selected
  /\ hasNextPage(catalog, pagesLoaded)
  /\ Unloaded # {}

\* all the members of the selected album are loaded and no request is outstanding
Resolved == Unloaded = {} /\ inFlight = 0

\* C8: for a selected album whose members the server serves across its P pages,
\* with no page request failing, the loader makes at most P fetches, and it
\* reaches a state where no member is missing and no request is outstanding.
C8_LoaderTerminates ==
  /\ [](failures = 0 => fetches <= Len(catalog))
  /\ \A a \in SelectableAlbums :
       (selectedAlbum = a /\ Served(a) /\ failures = 0)
         ~> (selectedAlbum # a \/ failures > 0 \/ Resolved)

\* C8 happens: the loader fetched every page after the first to find the
\* members of the selected album, and its effect then ran without a fetch
C8_Witness ==
  /\ selectedAlbum.selected
  /\ Len(selectedAlbum.assetIds) > 0
  /\ Served(selectedAlbum)
  /\ failures = 0
  /\ fetches > 0
  /\ fetches = Len(catalog) - 1
  /\ Resolved
  /\ ~effectDue
  /\ rendered = QueryResult
  /\ lastEffect = "returned"

\* C9: the loader fetches only when an album is selected and some of its
\* assetIds is in no loaded page: never for an album without assetIds, never
\* when every id is loaded, never without a selected album.
C9_FetchOnlyWhenMissing ==
  [][ fetches' > fetches => (selectedAlbum.selected /\ Unloaded # {}) ]_vars

\* C9 happens: with more pages to fetch and no request outstanding, the effect
\* ran for a selected album none of whose ids is missing, and did not fetch
C9_Witness ==
  /\ lastEffect = "returned"
  /\ ~effectDue
  /\ rendered = QueryResult
  /\ selectedAlbum.selected
  /\ Unloaded = {}
  /\ hasNextPage(catalog, pagesLoaded)
  /\ ~isFetchingNextPage
  /\ inFlight = 0

(***************************************************************************)
(* Properties of the bulk handler.                                         *)
(***************************************************************************)
\* the assets for which the transport did this
AssetsThat(P(_)) == { a \in BulkAssets : P(transport[a]) }

AllSucceeded(t) == t.listed = "ok" /\ t.matched > 0 /\ t.rejected = {}
Raised(t) == t.listed = "failed" \/ t.rejected # {}
NothingToDo(t) == t.listed = "ok" /\ t.matched = 0

\* C10: successCount is the number of assets that had a face of the person and
\* whose reassignment calls all succeeded, errorCount is the number of assets
\* whose processing raised a transport failure, and the assets without a face
\* of the person are counted in neither.
C10_BulkAccounting ==
  /\ successCount = Cardinality(AssetsThat(AllSucceeded))
  /\ errorCount = Cardinality(AssetsThat(Raised))
  /\ successCount + errorCount + Cardinality(AssetsThat(NothingToDo))
       = Cardinality({ a \in BulkAssets : transport[a] # NotCalled })

\* C10 happens: the handler finished a selection in which an asset had nothing
\* to do, one succeeded and one failed
C10_Witness ==
  /\ phase = "done"
  /\ AssetsThat(NothingToDo) # {}
  /\ successCount = 1
  /\ errorCount = 1


\* the unassign handler ran to its end
UnassignDone == phase = "done" /\ handled.op = "unassign"

\* the assets for which the loop has called the transport
Attempted == { a \in BulkAssets : transport[a] # NotCalled }

\* C11: a failure on one asset of a bulk unassign never keeps another asset of
\* the selection from being attempted and is not thrown out of the handler:
\* when the handler ends, every selected asset was attempted and the handler
\* gave its own summary, not the alert of a thrown error.
C11_Bulkhead ==
  UnassignDone =>
    /\ handled.ids \subseteq Attempted
    /\ notification \in { "No faces to unassign on selected assets", "removed",
                          "removed, some failed" }

\* C11 happens: the first of three selected assets failed, and the two after
\* it were attempted, one of them with success
C11_Witness ==
  /\ UnassignDone
  /\ handled.ids = {1, 2, 3}
  /\ Raised(transport[1])
  /\ transport[2] # NotCalled
  /\ AllSucceeded(transport[3])

\* C12: the message of a run in which every selected asset failed differs from
\* the message of a run in which no asset had a face of the person, which is
\* "No faces to unassign on selected assets".
C12_AllFailedDistinguished ==
  (UnassignDone /\ \A a \in handled.ids : Raised(transport[a]))
    => notification # "No faces to unassign on selected assets"

\* C13: after a successful delete of the card's asset, every cache entry that
\* listed the asset is still cached with the asset filtered out of its pages,
\* and no entry is invalidated or dropped for a refetch.
C13_DeleteFiltersInPlace ==
  [][ (handled.op = "none" /\ handled'.op = "delete")
      => \A k \in QueryKeys :
           queries'[k] = IF queries[k].cached /\ asset \in listedIds(queries[k])
                         THEN [queries[k] EXCEPT !.pages = filterPages(@, asset)]
                         ELSE queries[k] ]_vars

\* C14: after a successful merge of the card's person into a target, every
\* cached entry scoped to the source or to the target (the 'assets' entries
\* filtered by them included) and every person-list or aggregate entry is
\* stale, and the view is redirected to the target.
C14_MergeReconciliation ==
  handled.op = "merge" =>
    /\ \A k \in QueryKeys :
         ( /\ queries[k].cached
           /\ \/ k.person \in { ThePerson, handled.target }
              \/ k.name \in { "persons", "faceProgress", "unassignedFaces" } )
         => queries[k].isInvalidated
    /\ route = handled.target

\* C15: when faces of the card's person are unassigned, the 'assets' entries
\* that are not filtered by that person are left as they were.
C15_UnassignFrame ==
  [][ (handled.op = "unassign" /\ phase = "loop" /\ phase' = "done")
      => \A k \in AssetsKeys : k.person # ThePerson => queries'[k] = queries[k] ]_vars

\* C16: after every run of the unassign handler, whatever succeeded, failed or
\* was skipped, the cached 'unassignedFaces' and 'faceProgress' entries are
\* stale.
C16_AggregatesInvalidated ==
  UnassignDone =>
    \A k \in QueryKeys :
      (k.name \in { "unassignedFaces", "faceProgress" } /\ queries[k].cached)
        => queries[k].isInvalidated

\* C17: when a bulk unassign has attempted all its assets, the caches were
\* synchronized exactly once for the whole run.
C17_SynchronizedOnce == UnassignDone => invalidations = 1

\* the assets whose calls were made: those settled and the one awaited
Started == Attempted \cup ({ pending } \ { NoAsset })

\* C18: the selected assets' operations are dispatched concurrently, so that
\* all of them are started when the first one settles, and the caches are
\* reconciled only when all of them have settled.
C18_ConcurrentDispatch ==
  /\ [][ (\E a \in BulkAssets : transport'[a] # transport[a])
         => handled.ids \subseteq Started ]_vars
  /\ [][ invalidations' > invalidations
         => (handled.ids \subseteq Attempted /\ pending = NoAsset) ]_vars


(***************************************************************************)
(* Properties of the album store: unknown ids and failing reads.           *)
(***************************************************************************)
\* what the four calls that return an album give for an id of no album
OnUnknownId(mode) ==
  { getAlbum(storage, mode, UnknownId),
    updateAlbum(storage, mode, UnknownId,
                [hasName |-> TRUE, name |-> <<"a", " ">>, hasDescription |-> FALSE,
                 description |-> Undefined], now),
    addAssetsToAlbum(storage, mode, UnknownId, <<1>>, now),
    removeAssetsFromAlbum(storage, mode, UnknownId, <<1>>, now) }

\* C19: whatever the store holds and whatever the backing store does, getAlbum,
\* updateAlbum, addAssetsToAlbum and removeAssetsFromAlbum of an unknown id
\* return null, deleteAlbum of it returns false, and the collection a reader
\* finds afterwards is the one it would have found before.
C19_UnknownIdNoChange ==
  \A mode \in StoreModes :
    /\ \A o \in OnUnknownId(mode) :
         o.ret = "null" /\ Collection(o.st) = Collection(storage)
    /\ LET d == deleteAlbum(storage, mode, UnknownId)
       IN d.ret = "false" /\ Collection(d.st) = Collection(storage)

\* the read meets a current record that does not parse, a backing store that
\* throws, or a legacy record that does not parse during migration
ReadFails(st, mode) ==
  \/ st.albums.kind = "garbage"
  \/ getItemThrows(mode)
  \/ (~Truthy(st.albums) /\ st.legacy.kind = "garbage")

\* C20: getAlbums returns the empty collection, and raises nothing, when the
\* current record is unparsable, when the backing store throws, or when the
\* legacy record fails to parse during migration.
C20_ReadsDegrade ==
  \A mode \in StoreModes :
    ReadFails(storage, mode) => getAlbums(storage, mode).ret = <<>>

\* C20 happens: getAlbums was called on a store whose current record does not
\* parse while a legacy record is there, caught the exception and returned the
\* empty list
C20_Witness ==
  /\ lastOp.op = "getAlbums"
  /\ storage.albums.kind = "garbage"
  /\ storage.legacy.kind = "json"
  /\ lastOp.readFailed
  /\ lastOp.list = <<>>


(***************************************************************************)
(* Properties of the album store: failed writes and invariants.            *)
(***************************************************************************)
\* the functions that change an album and return it
Mutators == { "createAlbum", "updateAlbum", "addAssetsToAlbum", "removeAssetsFromAlbum" }

\* C21: when the backing store rejects the write of createAlbum, updateAlbum,
\* addAssetsToAlbum or removeAssetsFromAlbum, the call still returns the
\* changed album and what is persisted stays what it was before the call.
C21_WriteFailureSwallowed ==
  [][ ( /\ nOps' = nOps + 1
        /\ lastOp'.op \in Mutators
        /\ lastOp'.writeFailed
        /\ lastOp'.ret # "null" )
      => (lastOp'.ret = "album" /\ storage' = storage) ]_vars

\* no value occurs twice in the sequence
NoDuplicates(s) == \A i, j \in 1..Len(s) : i # j => s[i] # s[j]

\* the albums of both stored records
PersistedAlbums(st) ==
  { FromJson(st.albums.val[i]) : i \in 1..Len(st.albums.val) }
    \cup { FromJson(st.legacy.val[i]) : i \in 1..Len(st.legacy.val) }

\* C23: in every state the album store reaches, migration of a legacy record
\* included, no persisted or returned album holds an asset id twice.
C23_NoDuplicateIds ==
  /\ \A a \in PersistedAlbums(storage) : NoDuplicates(a.assetIds)
  /\ NoDuplicates(lastOp.album.assetIds)

\* C23 happens: an id the album holds was added to it, twice in one list, and
\* the album was saved
C23_Witness ==
  /\ Returned(lastOp, "addAssetsToAlbum")
  /\ lastOp.ids = <<1, 1>>
  /\ 1 \in Members(lastOp.before)
  /\ ~lastOp.writeFailed
  /\ Holder(StoredAlbums(storage), lastOp.id).assetIds = lastOp.album.assetIds

\* C24: every persisted album has a name that is not empty after trimming.
C24_NamesNotBlank ==
  \A a \in PersistedAlbums(storage) : Trim(a.name) # <<>>

C22_AlbumFrame ==
  [][ nOps' = nOps + 1
      => /\ queries' = queries
         /\ faces' = faces
         /\ catalog' = catalog
         /\ pagesLoaded' = pagesLoaded
         /\ route' = route ]_vars

\* C22 happens: an asset was added to an album and saved, and the cache still
\* holds every entry, fresh
C22_Witness ==
  /\ Returned(lastOp, "addAssetsToAlbum")
  /\ ~lastOp.writeFailed
  /\ Members(lastOp.album) # Members(lastOp.before)
  /\ Holder(StoredAlbums(storage), lastOp.id) = lastOp.album
  /\ \A k \in QueryKeys : queries[k].cached /\ ~queries[k].isInvalidated


(***************************************************************************)
(* Properties of the dependent page loader: exhaustion and progress.       *)
(***************************************************************************)
\* every page of the server's listing is loaded
Exhausted == pagesLoaded = Len(catalog)

\* C26: once every page is loaded the loader makes no further fetch, also when
\* ids of the album are still missing, and the rendered album holds the ids
\* that are loaded and leaves the missing ones out.
C26_NoFetchWhenExhausted ==
  /\ [][ Exhausted => fetches' = fetches ]_vars
  /\ []( (Exhausted /\ selectedAlbum.selected)
         => Range(albumAssets(selectedAlbum, allAssets(catalog, pagesLoaded)))
              = Range(selectedAlbum.assetIds) \ Unloaded )

\* C26 happens: the loader fetched up to the last page, ids of the selected
\* album are in no page, and the effect ran again without a fetch
C26_Witness ==
  /\ Exhausted
  /\ fetches > 0
  /\ selectedAlbum.selected
  /\ Unloaded # {}
  /\ Unloaded # Range(selectedAlbum.assetIds)
  /\ inFlight = 0
  /\ rendered = QueryResult
  /\ ~effectDue
  /\ lastEffect = "returned"

\* the page a fetch of the loader asked for arrives
LoaderPageArrives ==
  isFetchingNextPage /\ inFlight' < inFlight /\ failures' = failures

\* C27 as stated: every iteration of the loader strictly shrinks the set of
\* missing ids, or ends the loop: nothing is missing or no page remains.
C27_IterationShrinks ==
  [][ LoaderPageArrives
      => \/ (Unloaded' \subseteq Unloaded /\ Unloaded' # Unloaded)
         \/ Unloaded' = {}
         \/ ~hasNextPage(catalog, pagesLoaded') ]_vars

\* C27: every iteration of the loader in which the page arrives adds one page
\* of the listing to the loaded pages and never enlarges the set of missing
\* ids.
C27_IterationLoadsPage ==
  [][ LoaderPageArrives
      => /\ pagesLoaded' = pagesLoaded + 1
         /\ pagesLoaded' <= Len(catalog)
         /\ Unloaded' \subseteq Unloaded ]_vars

\* C27 happens: the second of three pages arrived, it held no id of the
\* selected album, every id of the album is still missing and a page remains
C27_Witness ==
  /\ lastEffect = "fetched"
  /\ fetches = 1
  /\ failures = 0
  /\ inFlight = 0
  /\ pagesLoaded = 2
  /\ Len(catalog) = 3
  /\ selectedAlbum.selected
  /\ Unloaded # {}
  /\ Unloaded = Range(selectedAlbum.assetIds)


(***************************************************************************)
(* Properties of the card's handlers: stale listings and failed deletes.   *)
(***************************************************************************)
\* the assets of which the run unassigned at least one face of the person
UnassignedAssets ==
  { a \in BulkAssets :
      transport[a].listed = "ok" /\ Cardinality(transport[a].rejected) < transport[a].matched }

\* C28: when a bulk unassign has reconciled the caches, no cached entry of the
\* person lists as fresh data an asset of which a face was unassigned in the
\* run: the asset was removed from the entry or the entry is stale.
C28_NoFreshListing ==
  (UnassignDone /\ invalidations > 0)
    => \A k \in QueryKeys :
         (k.person = ThePerson /\ queries[k].cached /\ ~queries[k].isInvalidated)
           => listedIds(queries[k]) \cap UnassignedAssets = {}

\* C28 happens: faces of the card's asset 1 and of asset 2 were unassigned;
\* the person's gallery no longer lists asset 1, still lists asset 2, and is
\* stale
C28_Witness ==
  /\ UnassignDone
  /\ invalidations = 1
  /\ asset = 1
  /\ {1, 2} \subseteq UnassignedAssets
  /\ LET e == queries[QueryKey("assets", ThePerson)]
     IN e.cached /\ e.isInvalidated /\ 2 \in listedIds(e) /\ 1 \notin listedIds(e)

\* the deletion service reported a failure
DeleteFailed(result) == result.rejects \/ ~result.success

\* C29: when the deletion service rejects or reports success false, the
\* handler calls neither onDelete nor reload, so the cache is as it was, and it
\* alerts; for a read-only file the alert holds the path the server supplied.
C29_FailedDeleteKeepsCache ==
  [][ ( /\ handled.op = "none"
        /\ handled'.op \in { "delete", "deleteFailed" }
        /\ DeleteFailed(handled'.result) )
      => /\ queries' = queries
         /\ notification' \in { "alert: Delete failed",
                                "alert: Unable to delete, the file is read-only",
                                "alert: Unable to delete, the file is read-only (path)" }
         /\ (handled'.result.read_only /\ handled'.result.path)
              => notification' = "alert: Unable to delete, the file is read-only (path)"
    ]_vars

\* C29 happens: the deletion of a read-only file failed, the server gave its
\* path, and the cache still lists the asset, fresh
C29_Witness ==
  /\ handled.op = "deleteFailed"
  /\ handled.result.read_only
  /\ handled.result.path
  /\ notification = "alert: Unable to delete, the file is read-only (path)"
  /\ LET e == queries[QueryKey("assets", NoPerson)]
     IN e.cached /\ ~e.isInvalidated /\ asset \in listedIds(e)

\* C30: the mutating functions read the whole collection, change it and write
\* the whole collection back, with nothing to serialize them: when a document
\* writes after another document wrote between its read and its write, what is
\* persisted is its own call applied to the collection it read, which holds
\* nothing of the other document's change.
C30_LastWriteWins ==
  [][ \A w \in Tabs :
        ( /\ tabs[w].pc = "read"
          /\ tabs[w].raced
          /\ tabs'[w].pc = "done"
          /\ tabs'[w].wrote )
        => Collection(storage') = Collection(applyOp(tabs[w].op, tabs[w].snapshot, now').st)
    ]_vars

\* C30 happens: both documents read the album holding asset 1, the first wrote
\* it with asset 2 added, the second wrote it with asset 3 added, and the
\* persisted album holds 1 and 3: the addition of 2 is lost
C30_Witness ==
  /\ tabs["t1"].pc = "done" /\ tabs["t1"].wrote /\ ~tabs["t1"].raced
  /\ tabs["t1"].op = [name |-> "addAssetsToAlbum", ids |-> <<2>>]
  /\ tabs["t2"].pc = "done" /\ tabs["t2"].wrote /\ tabs["t2"].raced
  /\ tabs["t2"].op = [name |-> "addAssetsToAlbum", ids |-> <<3>>]
  /\ Holder(Collection(storage), LegacyId).assetIds = <<1, 3>>

\* the collection can be read from the current key or from the legacy key
ReadableFrom(st, albums) ==
  \/ (st.albums.kind = "json" /\ JSONparse(st.albums) = albums)
  \/ (st.legacy.kind = "json" /\ JSONparse(st.legacy) = albums)

\* C31: a getAlbums call that finds only the legacy record leaves the legacy
\* collection readable from the current key or from the legacy key, also when
\* the write to the current key fails.
C31_MigrationKeepsCollection ==
  [][ ( /\ nOps' = nOps + 1
        /\ lastOp'.op = "getAlbums"
        /\ ~Truthy(storage.albums)
        /\ storage.legacy.kind = "json" )
      => ReadableFrom(storage', JSONparse(storage.legacy)) ]_vars

\* the album a mutating call is about: the one it names, or the one it creates
Target(call) == IF call.op = "createAlbum" THEN call.album.id ELSE call.id

\* C32: createAlbum, updateAlbum, deleteAlbum, addAssetsToAlbum and
\* removeAssetsFromAlbum leave every persisted album other than the one they are
\* about persisted and unchanged, also when the read at their start gave the
\* empty collection.
C32_OtherAlbumsKept ==
  [][ ( /\ nOps' = nOps + 1
        /\ lastOp'.op \in Mutators \cup { "deleteAlbum" } )
      => \A a \in PersistedAlbums(storage) :
           a.id # Target(lastOp') => a \in PersistedAlbums(storage') ]_vars

(***************************************************************************)
(* Properties of the bulk unassign: the face total, the patch, the caches. *)
(***************************************************************************)
\* the faces the server holds as unassigned: no asset starts with one
ServerUnassigned ==
  { af \in UNION { { <<a, i>> : i \in DOMAIN faces[a] } : a \in BulkAssets } :
      faces[af[1]][af[2]] = Unassigned }

\* C33: when a bulk unassign has finished, totalFacesUnassigned is the number
\* of faces whose assignFaceToPerson(face.id, null) call succeeded on the
\* server, whatever calls succeeded and failed.
C33_TotalIsServerCount ==
  UnassignDone => totalFacesUnassigned = Cardinality(ServerUnassigned)

\* the assets the run counted as a success: every face of the person they had
\* was unassigned
Succeeded ==
  { a \in BulkAssets :
      /\ transport[a].listed = "ok"
      /\ transport[a].matched > 0
      /\ transport[a].rejected = {} }

\* C34: the patch the unassign handler makes to the cached galleries of the
\* person takes out of them the assets whose faces the run unassigned, and no
\* other asset: none outside the selection, none that failed or was skipped.
C34_PatchRemovesProcessed ==
  [][ ( /\ phase = "loop"
        /\ phase' = "done"
        /\ invalidations' = invalidations + 1 )
      => \A k \in AssetsKeys :
           (k.person = ThePerson /\ queries[k].cached)
             => listedIds(queries'[k]) = listedIds(queries[k]) \ Succeeded ]_vars

\* the keys of the person's lists and of the aggregates
PersonAndAggregateKeys ==
  { k \in QueryKeys :
      \/ k.name \in { "persons", "faceProgress", "unassignedFaces" }
      \/ (k.name \in { "personAssets", "personFace" } /\ k.person = ThePerson) }

\* C35: a bulk unassign during which a face was unassigned on the server has,
\* when it finishes, invalidated the cached entries of the person and of the
\* aggregates.
C35_ServerChangeInvalidates ==
  (UnassignDone /\ ServerUnassigned # {})
    => /\ invalidations > 0
       /\ \A k \in PersonAndAggregateKeys : queries[k].cached => queries[k].isInvalidated

(***************************************************************************)
(* Properties of the loader against a failing server.                      *)
(***************************************************************************)
\* Only the first page, which the query requests itself, was appended: every
\* request the loader made has failed or is still in flight
NoPageAppended == pagesLoaded = 1

\* C36: against a server that fails the loader's page requests, appends no
\* page and still signals more pages, the loader stops asking: once
\* MaxFailures requests have failed it issues no further fetch.
C36_StopsAfterFailures ==
  [][ (fetches' = fetches + 1 /\ NoPageAppended) => failures < MaxFailures ]_vars

\* the first page is loaded, an album is selected and rendered, nothing is in
\* flight and the effect of the render is due: a state of the loader from which
\* the failing server is explored
C36_StartReached ==
  /\ pagesLoaded = 1 /\ inFlight = 0 /\ fetches = 0 /\ failures = 0
  /\ selectedAlbum.selected
  /\ rendered = [pages |-> 1, isFetchingNextPage |-> FALSE]
  /\ effectDue /\ lastEffect = "returned"

====
